---- MODULE Spec2Model ----
(***************************************************************************)
(* A model of secure-gotcp: the Server accept loop and Stop (server.go),   *)
(* and per connection the Close body, AsyncWritePacket, Do and the three   *)
(* worker loops readLoop / writeLoop / handleLoop (conn.go).               *)
(*                                                                         *)
(* A Go channel of struct{} that is only ever closed is a BOOLEAN (TRUE =  *)
(* closed).  A buffered channel of Packet is a sequence plus a "closed"    *)
(* bit.  A packet is a positive number, 0 is the nil Packet.               *)
(***************************************************************************)
EXTENDS Integers, Sequences, FiniteSets, TLC

\* ---- bounds of the model ----
\* API calls (AsyncWritePacket, Close) the application makes on a connection
MaxCalls == 2
\* packets the peer of a connection sends
MaxRead == 2

\* ---- configuration (Config, server.go) ----
PacketSendChanLimit == 1
PacketReceiveChanLimit == 1

\* the connections (numbered in the order Accept returns their sockets), the
\* application goroutines that use a connection, the callers of Server.Stop
Conns == {1, 2}
Apps == {1, 2}
Stoppers == {1, 2}

VARIABLES
  exitChan,          \* Server.exitChan is closed
  waitGroup,         \* counter of Server.waitGroup
  startPc,           \* position of the goroutine running Server.Start
  listenerClosed,    \* listener.Close() was called by Start's defer
  nAccepted,         \* number of sockets Accept has returned
  stopPc,            \* position of each caller of Server.Stop
  doPc,              \* position of the goroutine running newConn(conn, s).Do()
  connected,         \* what OnConnect returned for the connection
  closePc,           \* closeOnce and the position inside the body of Close
  closeFlag,         \* Conn.closeFlag
  closeChan,         \* Conn.closeChan is closed
  sendClosed,        \* Conn.packetSendChan is closed
  recvClosed,        \* Conn.packetReceiveChan is closed
  sockClosed,        \* Conn.conn (the socket) is closed
  onCloseCount,      \* number of invocations of ConnCallback.OnClose
  closeRuns,         \* number of times the body of Close was entered
  closeReturned,     \* some call of Conn.Close has returned
  packetSendChan,    \* buffer of Conn.packetSendChan
  packetReceiveChan, \* buffer of Conn.packetReceiveChan
  readPc, rPkt,      \* readLoop: position, packet decoded and not yet pushed
  readCount,         \* number of successful Protocol.ReadPacket calls
  readFails,         \* number of failed Protocol.ReadPacket calls
  writePc, wPkt,     \* writeLoop: position, packet received from the queue
  wrLog,             \* packets written to the socket, in order
  handlePc, hPkt,    \* handleLoop: position, packet received from the queue
  msgLog,            \* packets passed to OnMessage, in order
  msgAfterClose,     \* number of OnMessage invocations made after OnClose
  rejected,          \* OnMessage has returned false
  enqLog,            \* packets enqueued by AsyncWritePacket, in order
  apPc,              \* application goroutine: position
  apConn,            \* connection of its current call
  apTimeout,         \* timeout of its current AsyncWritePacket (0 or 1 = positive)
  apTimer,           \* the channel of time.After(timeout) has fired
  apAfterClose,      \* the current call started after a Close had returned
  last,              \* the AsyncWritePacket call that returned last
  nCalls             \* number of API calls the application has made

\* No AsyncWritePacket call has returned yet.
NoCall == [res |-> "none", timeout |-> 0, timer |-> FALSE, recovered |-> FALSE,
           afterClose |-> FALSE]

srvVars == <<exitChan, waitGroup, startPc, listenerClosed, nAccepted, stopPc>>
doVars == <<doPc, connected>>
closeVars == <<closePc, closeFlag, closeChan, sendClosed, recvClosed, sockClosed,
               onCloseCount, closeRuns>>
readVars == <<readPc, rPkt, readCount, readFails>>
writeVars == <<writePc, wPkt, wrLog>>
handleVars == <<handlePc, hPkt, msgLog, msgAfterClose, rejected>>
appVars == <<apPc, apConn, apTimeout, apTimer, apAfterClose, last, nCalls>>

vars == <<srvVars, doVars, closeVars, closeReturned, packetSendChan,
          packetReceiveChan, readVars, writeVars, handleVars, enqLog, appVars>>

Init ==
  /\ exitChan = FALSE
  /\ waitGroup = 0
  /\ startPc = "go"
  /\ listenerClosed = FALSE
  /\ nAccepted = 0
  /\ stopPc = [s \in Stoppers |-> "idle"]
  /\ doPc = [c \in Conns |-> "none"]
  /\ connected = [c \in Conns |-> "none"]
  /\ closePc = [c \in Conns |-> 0]
  /\ closeFlag = [c \in Conns |-> 0]
  /\ closeChan = [c \in Conns |-> FALSE]
  /\ sendClosed = [c \in Conns |-> FALSE]
  /\ recvClosed = [c \in Conns |-> FALSE]
  /\ sockClosed = [c \in Conns |-> FALSE]
  /\ onCloseCount = [c \in Conns |-> 0]
  /\ closeRuns = [c \in Conns |-> 0]
  /\ closeReturned = [c \in Conns |-> FALSE]
  /\ packetSendChan = [c \in Conns |-> <<>>]
  /\ packetReceiveChan = [c \in Conns |-> <<>>]
  /\ readPc = [c \in Conns |-> "off"]
  /\ rPkt = [c \in Conns |-> 0]
  /\ readCount = [c \in Conns |-> 0]
  /\ readFails = [c \in Conns |-> 0]
  /\ writePc = [c \in Conns |-> "off"]
  /\ wPkt = [c \in Conns |-> 0]
  /\ wrLog = [c \in Conns |-> <<>>]
  /\ handlePc = [c \in Conns |-> "off"]
  /\ hPkt = [c \in Conns |-> 0]
  /\ msgLog = [c \in Conns |-> <<>>]
  /\ msgAfterClose = [c \in Conns |-> 0]
  /\ rejected = [c \in Conns |-> FALSE]
  /\ enqLog = [c \in Conns |-> <<>>]
  /\ apPc = [a \in Apps |-> "idle"]
  /\ apConn = [a \in Apps |-> 1]
  /\ apTimeout = [a \in Apps |-> 0]
  /\ apTimer = [a \in Apps |-> FALSE]
  /\ apAfterClose = [a \in Apps |-> FALSE]
  /\ last = NoCall
  /\ nCalls = 0

\* ---------------------------------------------------------------------------
\* Server (server.go)
\* ---------------------------------------------------------------------------

\* Start, line 35: s.waitGroup.Add(1), executed by the goroutine that runs Start.
StartAdd ==
  /\ startPc = "go"
  /\ waitGroup' = waitGroup + 1
  /\ startPc' = "loop"
  /\ UNCHANGED <<exitChan, listenerClosed, nAccepted, stopPc, doVars, closeVars,
                 closeReturned, packetSendChan, packetReceiveChan, readVars,
                 writeVars, handleVars, enqLog, appVars>>

\* An accept loop that does not look at exitChan.
StartSelectM ==
  /\ startPc = "loop"
  /\ startPc' = "accept"
  /\ UNCHANGED <<exitChan, waitGroup, listenerClosed, nAccepted, stopPc, doVars,
                 closeVars, closeReturned, packetSendChan, packetReceiveChan,
                 readVars, writeVars, handleVars, enqLog, appVars>>

\* Start, lines 42-47 and the defer of lines 36-39: the non-blocking select on
\* exitChan at the top of the accept loop.
StartSelect ==
  /\ startPc = "loop"
  /\ IF exitChan
       THEN /\ listenerClosed' = TRUE
            /\ waitGroup' = waitGroup - 1
            /\ startPc' = "done"
       ELSE /\ startPc' = "accept"
            /\ UNCHANGED <<listenerClosed, waitGroup>>
  /\ UNCHANGED <<exitChan, nAccepted, stopPc, doVars, closeVars, closeReturned,
                 packetSendChan, packetReceiveChan, readVars, writeVars,
                 handleVars, enqLog, appVars>>

\* Start, lines 53-56: Accept fails (the deadline passed): continue.
StartAcceptErr ==
  /\ startPc = "accept"
  /\ startPc' = "loop"
  /\ UNCHANGED <<exitChan, waitGroup, listenerClosed, nAccepted, stopPc, doVars,
                 closeVars, closeReturned, packetSendChan, packetReceiveChan,
                 readVars, writeVars, handleVars, enqLog, appVars>>

\* Start, lines 53-62: Accept returns a socket; waitGroup.Add(1) and the
\* goroutine that runs newConn(conn, s).Do() is started.
StartAccept(max) ==
  /\ startPc = "accept"
  /\ nAccepted < max
  /\ nAccepted' = nAccepted + 1
  /\ waitGroup' = waitGroup + 1
  /\ doPc' = [doPc EXCEPT ![nAccepted + 1] = "run"]
  /\ startPc' = "loop"
  /\ UNCHANGED <<exitChan, listenerClosed, stopPc, connected, closeVars,
                 closeReturned, packetSendChan, packetReceiveChan, readVars,
                 writeVars, handleVars, enqLog, appVars>>

\* Stop, line 68: close(s.exitChan).  Closing a closed channel panics, and Stop
\* has no recover: the panic reaches the caller.
Stop(s) ==
  /\ stopPc[s] = "idle"
  /\ IF exitChan
       THEN /\ stopPc' = [stopPc EXCEPT ![s] = "panic"]
            /\ UNCHANGED exitChan
       ELSE /\ stopPc' = [stopPc EXCEPT ![s] = "wait"]
            /\ exitChan' = TRUE
  /\ UNCHANGED <<waitGroup, startPc, listenerClosed, nAccepted, doVars, closeVars,
                 closeReturned, packetSendChan, packetReceiveChan, readVars,
                 writeVars, handleVars, enqLog, appVars>>

\* A Stop that returns without waiting for the counter.
StopWaitM(s) ==
  /\ stopPc[s] = "wait"
  /\ stopPc' = [stopPc EXCEPT ![s] = "done"]
  /\ UNCHANGED <<exitChan, waitGroup, startPc, listenerClosed, nAccepted, doVars,
                 closeVars, closeReturned, packetSendChan, packetReceiveChan,
                 readVars, writeVars, handleVars, enqLog, appVars>>

\* Stop, line 69: s.waitGroup.Wait() returns when the counter is zero.
StopWait(s) ==
  /\ stopPc[s] = "wait"
  /\ waitGroup = 0
  /\ stopPc' = [stopPc EXCEPT ![s] = "done"]
  /\ UNCHANGED <<exitChan, waitGroup, startPc, listenerClosed, nAccepted, doVars,
                 closeVars, closeReturned, packetSendChan, packetReceiveChan,
                 readVars, writeVars, handleVars, enqLog, appVars>>

\* ---------------------------------------------------------------------------
\* Conn.Do (conn.go 130-138) with asyncDo (236-242), run by the goroutine of
\* server.go 59-62, which ends with s.waitGroup.Done().
\* ---------------------------------------------------------------------------

\* A Do that starts the workers whatever OnConnect returned.
SpawnedM(ok) == 3

\* The workers asyncDo starts when OnConnect returned ok.
Spawned(ok) == IF ok THEN 3 ELSE 0

Do(c) ==
  /\ doPc[c] = "run"
  /\ \E ok \in BOOLEAN :
       /\ connected' = [connected EXCEPT ![c] = IF ok THEN "accept" ELSE "reject"]
       /\ waitGroup' = waitGroup + Spawned(ok) - 1
       /\ handlePc' = [handlePc EXCEPT ![c] = IF Spawned(ok) > 0 THEN "sel" ELSE @]
       /\ readPc' = [readPc EXCEPT ![c] = IF Spawned(ok) > 0 THEN "top" ELSE @]
       /\ writePc' = [writePc EXCEPT ![c] = IF Spawned(ok) > 0 THEN "sel" ELSE @]
  /\ doPc' = [doPc EXCEPT ![c] = "done"]
  /\ UNCHANGED <<exitChan, startPc, listenerClosed, nAccepted, stopPc, closeVars,
                 closeReturned, packetSendChan, packetReceiveChan, rPkt, readCount,
                 readFails, wPkt, wrLog, hPkt, msgLog, msgAfterClose, rejected,
                 enqLog, appVars>>

\* ---------------------------------------------------------------------------
\* Conn.Close (conn.go 76-85) and Conn.IsClosed (88-90)
\* ---------------------------------------------------------------------------

IsClosed(c) == closeFlag[c] = 1

\* A guard that lets a caller arriving after the body has completed run it again.
OnceFreshM(c) == closePc[c] \in {0, 6}

\* closeOnce has not run its function yet: closeOnce.Do(f) calls f.
OnceFresh(c) == closePc[c] = 0

\* closeOnce.Do returns to a caller only when f has completed.
OnceDone(c) == closePc[c] = 6

\* Some goroutine is inside c.Close().
CloseCalled(c) ==
  \/ readPc[c] = "close"
  \/ writePc[c] = "close"
  \/ handlePc[c] = "close"
  \/ \E a \in Apps : apPc[a] = "close" /\ apConn[a] = c

\* A Close body without the store of line 78.
CloseBeginM(c) ==
  /\ CloseCalled(c)
  /\ OnceFresh(c)
  /\ closePc' = [closePc EXCEPT ![c] = 1]
  /\ closeRuns' = [closeRuns EXCEPT ![c] = @ + 1]
  /\ UNCHANGED <<srvVars, doVars, closeFlag, closeChan, sendClosed, recvClosed,
                 sockClosed, onCloseCount, closeReturned, packetSendChan,
                 packetReceiveChan, readVars, writeVars, handleVars, enqLog,
                 appVars>>

\* closeOnce.Do enters the body for the first caller, which executes line 78:
\* atomic.StoreInt32(&c.closeFlag, 1).
CloseBegin(c) ==
  /\ CloseCalled(c)
  /\ OnceFresh(c)
  /\ closeFlag' = [closeFlag EXCEPT ![c] = 1]
  /\ closePc' = [closePc EXCEPT ![c] = 1]
  /\ closeRuns' = [closeRuns EXCEPT ![c] = @ + 1]
  /\ UNCHANGED <<srvVars, doVars, closeChan, sendClosed, recvClosed, sockClosed,
                 onCloseCount, closeReturned, packetSendChan, packetReceiveChan,
                 readVars, writeVars, handleVars, enqLog, appVars>>

\* A body whose closeChan is one channel shared by all the connections.
CloseStepShared(c) ==
  /\ closePc[c] \in 1..5
  /\ closePc' = [closePc EXCEPT ![c] = @ + 1]
  /\ closeChan' = [d \in Conns |-> closeChan[d] \/ closePc[c] = 1]
  /\ sendClosed' = [sendClosed EXCEPT ![c] = @ \/ closePc[c] = 2]
  /\ recvClosed' = [recvClosed EXCEPT ![c] = @ \/ closePc[c] = 3]
  /\ sockClosed' = [sockClosed EXCEPT ![c] = @ \/ closePc[c] = 4]
  /\ onCloseCount' = [onCloseCount EXCEPT ![c] = IF closePc[c] = 5 THEN @ + 1 ELSE @]
  /\ UNCHANGED <<srvVars, doVars, closeFlag, closeRuns, closeReturned,
                 packetSendChan, packetReceiveChan, readVars, writeVars,
                 handleVars, enqLog, appVars>>

\* A body that leaves packetReceiveChan open (no line 81).
CloseStepNoRecv(c) ==
  /\ closePc[c] \in 1..5
  /\ closePc' = [closePc EXCEPT ![c] = @ + 1]
  /\ closeChan' = [closeChan EXCEPT ![c] = @ \/ closePc[c] = 1]
  /\ sendClosed' = [sendClosed EXCEPT ![c] = @ \/ closePc[c] = 2]
  /\ sockClosed' = [sockClosed EXCEPT ![c] = @ \/ closePc[c] = 4]
  /\ onCloseCount' = [onCloseCount EXCEPT ![c] = IF closePc[c] = 5 THEN @ + 1 ELSE @]
  /\ UNCHANGED <<srvVars, doVars, closeFlag, recvClosed, closeRuns, closeReturned,
                 packetSendChan, packetReceiveChan, readVars, writeVars,
                 handleVars, enqLog, appVars>>

\* A body that closes the queues before it raises closeChan, and invokes
\* OnClose before it closes the socket.
CloseStepM(c) ==
  /\ closePc[c] \in 1..5
  /\ closePc' = [closePc EXCEPT ![c] = @ + 1]
  /\ sendClosed' = [sendClosed EXCEPT ![c] = @ \/ closePc[c] = 1]
  /\ recvClosed' = [recvClosed EXCEPT ![c] = @ \/ closePc[c] = 2]
  /\ closeChan' = [closeChan EXCEPT ![c] = @ \/ closePc[c] = 3]
  /\ onCloseCount' = [onCloseCount EXCEPT ![c] = IF closePc[c] = 4 THEN @ + 1 ELSE @]
  /\ sockClosed' = [sockClosed EXCEPT ![c] = @ \/ closePc[c] = 5]
  /\ UNCHANGED <<srvVars, doVars, closeFlag, closeRuns, closeReturned,
                 packetSendChan, packetReceiveChan, readVars, writeVars,
                 handleVars, enqLog, appVars>>

\* The rest of the body, one line per step: 79 close(closeChan), 80
\* close(packetSendChan), 81 close(packetReceiveChan), 82 conn.Close(), 83 OnClose.
CloseStep(c) ==
  /\ closePc[c] \in 1..5
  /\ closePc' = [closePc EXCEPT ![c] = @ + 1]
  /\ closeChan' = [closeChan EXCEPT ![c] = @ \/ closePc[c] = 1]
  /\ sendClosed' = [sendClosed EXCEPT ![c] = @ \/ closePc[c] = 2]
  /\ recvClosed' = [recvClosed EXCEPT ![c] = @ \/ closePc[c] = 3]
  /\ sockClosed' = [sockClosed EXCEPT ![c] = @ \/ closePc[c] = 4]
  /\ onCloseCount' = [onCloseCount EXCEPT ![c] = IF closePc[c] = 5 THEN @ + 1 ELSE @]
  /\ UNCHANGED <<srvVars, doVars, closeFlag, closeRuns, closeReturned,
                 packetSendChan, packetReceiveChan, readVars, writeVars,
                 handleVars, enqLog, appVars>>

\* ---------------------------------------------------------------------------
\* Conn.readLoop (conn.go 140-171)
\* ---------------------------------------------------------------------------

\* Lines 153-161: the non-blocking select at the top of the loop.
ReadSelect(c) ==
  /\ readPc[c] = "top"
  /\ readPc' = [readPc EXCEPT ![c] = IF exitChan \/ closeChan[c] THEN "close" ELSE "read"]
  /\ UNCHANGED <<srvVars, doVars, closeVars, closeReturned, packetSendChan,
                 packetReceiveChan, rPkt, readCount, readFails, writeVars,
                 handleVars, enqLog, appVars>>

\* Line 163: ReadPacket decodes the next packet of the stream (packet k is the
\* k-th decoded one).  A read of a closed socket does not succeed.
ReadPacketOk(c, max) ==
  /\ readPc[c] = "read"
  /\ ~sockClosed[c]
  /\ readCount[c] < max
  /\ readCount' = [readCount EXCEPT ![c] = @ + 1]
  /\ rPkt' = [rPkt EXCEPT ![c] = readCount[c] + 1]
  /\ readPc' = [readPc EXCEPT ![c] = "push"]
  /\ UNCHANGED <<srvVars, doVars, closeVars, closeReturned, packetSendChan,
                 packetReceiveChan, readFails, writeVars, handleVars, enqLog,
                 appVars>>

\* A readLoop that goes on with the loop after a failed ReadPacket.
ReadPacketErrM(c) ==
  /\ readPc[c] = "read"
  /\ readFails' = [readFails EXCEPT ![c] = @ + 1]
  /\ readPc' = [readPc EXCEPT ![c] = "top"]
  /\ UNCHANGED <<srvVars, doVars, closeVars, closeReturned, packetSendChan,
                 packetReceiveChan, rPkt, readCount, writeVars, handleVars,
                 enqLog, appVars>>

\* Lines 163-167: ReadPacket returns an error (decode failure, end of stream,
\* closed socket): return, and the deferred function calls Close.
ReadPacketErr(c) ==
  /\ readPc[c] = "read"
  /\ readFails' = [readFails EXCEPT ![c] = @ + 1]
  /\ readPc' = [readPc EXCEPT ![c] = "close"]
  /\ UNCHANGED <<srvVars, doVars, closeVars, closeReturned, packetSendChan,
                 packetReceiveChan, rPkt, readCount, writeVars, handleVars,
                 enqLog, appVars>>

\* A push that does not wait for room in the buffer.
ReadPushNoLimit(c) ==
  /\ readPc[c] = "push"
  /\ IF recvClosed[c]
       THEN /\ readPc' = [readPc EXCEPT ![c] = "close"]
            /\ UNCHANGED packetReceiveChan
       ELSE /\ packetReceiveChan' = [packetReceiveChan EXCEPT ![c] = Append(@, rPkt[c])]
            /\ readPc' = [readPc EXCEPT ![c] = "top"]
  /\ rPkt' = [rPkt EXCEPT ![c] = 0]
  /\ UNCHANGED <<srvVars, doVars, closeVars, closeReturned, packetSendChan,
                 readCount, readFails, writeVars, handleVars, enqLog, appVars>>

\* A push that makes room in a full buffer by discarding its oldest packet.
ReadPushM(c) ==
  /\ readPc[c] = "push"
  /\ IF recvClosed[c]
       THEN /\ readPc' = [readPc EXCEPT ![c] = "close"]
            /\ UNCHANGED packetReceiveChan
       ELSE /\ packetReceiveChan' =
                 [packetReceiveChan EXCEPT ![c] =
                    IF Len(@) < PacketReceiveChanLimit
                      THEN Append(@, rPkt[c])
                      ELSE Append(Tail(@), rPkt[c])]
            /\ readPc' = [readPc EXCEPT ![c] = "top"]
  /\ rPkt' = [rPkt EXCEPT ![c] = 0]
  /\ UNCHANGED <<srvVars, doVars, closeVars, closeReturned, packetSendChan,
                 readCount, readFails, writeVars, handleVars, enqLog, appVars>>

\* Line 169: c.packetReceiveChan <- p blocks while the buffer is full; a send on
\* the closed channel panics, which the deferred recover (142-150) contains.
ReadPush(c) ==
  /\ readPc[c] = "push"
  /\ IF recvClosed[c]
       THEN /\ readPc' = [readPc EXCEPT ![c] = "close"]
            /\ UNCHANGED packetReceiveChan
       ELSE /\ Len(packetReceiveChan[c]) < PacketReceiveChanLimit
            /\ packetReceiveChan' = [packetReceiveChan EXCEPT ![c] = Append(@, rPkt[c])]
            /\ readPc' = [readPc EXCEPT ![c] = "top"]
  /\ rPkt' = [rPkt EXCEPT ![c] = 0]
  /\ UNCHANGED <<srvVars, doVars, closeVars, closeReturned, packetSendChan,
                 readCount, readFails, writeVars, handleVars, enqLog, appVars>>

\* Line 149 and asyncDo 239-240: c.Close() returns, then wg.Done().
ReadClose(c) ==
  /\ readPc[c] = "close"
  /\ OnceDone(c)
  /\ readPc' = [readPc EXCEPT ![c] = "done"]
  /\ waitGroup' = waitGroup - 1
  /\ closeReturned' = [closeReturned EXCEPT ![c] = TRUE]
  /\ UNCHANGED <<exitChan, startPc, listenerClosed, nAccepted, stopPc, doVars,
                 closeVars, packetSendChan, packetReceiveChan, rPkt, readCount,
                 readFails, writeVars, handleVars, enqLog, appVars>>

\* ---------------------------------------------------------------------------
\* Conn.writeLoop (conn.go 173-203)
\* ---------------------------------------------------------------------------

\* Lines 186-193: the blocking select.  Go picks any ready case; a receive from
\* a closed channel is ready and yields the buffered packets, then nil.
WriteSelect(c) ==
  /\ writePc[c] = "sel"
  /\ \/ /\ exitChan \/ closeChan[c]
        /\ writePc' = [writePc EXCEPT ![c] = "close"]
        /\ UNCHANGED <<packetSendChan, wPkt>>
     \/ /\ Len(packetSendChan[c]) > 0
        /\ wPkt' = [wPkt EXCEPT ![c] = Head(packetSendChan[c])]
        /\ packetSendChan' = [packetSendChan EXCEPT ![c] = Tail(@)]
        /\ writePc' = [writePc EXCEPT ![c] = "got"]
     \/ /\ Len(packetSendChan[c]) = 0
        /\ sendClosed[c]
        /\ wPkt' = [wPkt EXCEPT ![c] = 0]
        /\ writePc' = [writePc EXCEPT ![c] = "got"]
        /\ UNCHANGED packetSendChan
  /\ UNCHANGED <<srvVars, doVars, closeVars, closeReturned, packetReceiveChan,
                 readVars, wrLog, handleVars, enqLog, appVars>>

\* Lines 194-196: if c.IsClosed() { return }.
WriteCheck(c) ==
  /\ writePc[c] = "got"
  /\ writePc' = [writePc EXCEPT ![c] = IF IsClosed(c) THEN "close" ELSE "write"]
  /\ UNCHANGED <<srvVars, doVars, closeVars, closeReturned, packetSendChan,
                 packetReceiveChan, readVars, wPkt, wrLog, handleVars, enqLog,
                 appVars>>

\* Lines 197-200: c.conn.Write(p.Serialize()) succeeds on an open socket ...
WriteSockOk(c) ==
  /\ writePc[c] = "write"
  /\ ~sockClosed[c]
  /\ wrLog' = [wrLog EXCEPT ![c] = Append(@, wPkt[c])]
  /\ wPkt' = [wPkt EXCEPT ![c] = 0]
  /\ writePc' = [writePc EXCEPT ![c] = "sel"]
  /\ UNCHANGED <<srvVars, doVars, closeVars, closeReturned, packetSendChan,
                 packetReceiveChan, readVars, handleVars, enqLog, appVars>>

\* A writeLoop that goes on with the next packet after a failed Write.
WriteSockErrM(c) ==
  /\ writePc[c] = "write"
  /\ wPkt' = [wPkt EXCEPT ![c] = 0]
  /\ writePc' = [writePc EXCEPT ![c] = "sel"]
  /\ UNCHANGED <<srvVars, doVars, closeVars, closeReturned, packetSendChan,
                 packetReceiveChan, readVars, wrLog, handleVars, enqLog, appVars>>

\* ... or fails (transport failure, closed socket): return.
WriteSockErr(c) ==
  /\ writePc[c] = "write"
  /\ wPkt' = [wPkt EXCEPT ![c] = 0]
  /\ writePc' = [writePc EXCEPT ![c] = "close"]
  /\ UNCHANGED <<srvVars, doVars, closeVars, closeReturned, packetSendChan,
                 packetReceiveChan, readVars, wrLog, handleVars, enqLog, appVars>>

\* Line 182 and asyncDo 239-240: c.Close() returns, then wg.Done().
WriteClose(c) ==
  /\ writePc[c] = "close"
  /\ OnceDone(c)
  /\ writePc' = [writePc EXCEPT ![c] = "done"]
  /\ waitGroup' = waitGroup - 1
  /\ closeReturned' = [closeReturned EXCEPT ![c] = TRUE]
  /\ UNCHANGED <<exitChan, startPc, listenerClosed, nAccepted, stopPc, doVars,
                 closeVars, packetSendChan, packetReceiveChan, readVars, wPkt,
                 wrLog, handleVars, enqLog, appVars>>

\* ---------------------------------------------------------------------------
\* Conn.handleLoop (conn.go 205-234)
\* ---------------------------------------------------------------------------

\* Lines 218-225: the blocking select.
HandleSelect(c) ==
  /\ handlePc[c] = "sel"
  /\ \/ /\ exitChan \/ closeChan[c]
        /\ handlePc' = [handlePc EXCEPT ![c] = "close"]
        /\ UNCHANGED <<packetReceiveChan, hPkt>>
     \/ /\ Len(packetReceiveChan[c]) > 0
        /\ hPkt' = [hPkt EXCEPT ![c] = Head(packetReceiveChan[c])]
        /\ packetReceiveChan' = [packetReceiveChan EXCEPT ![c] = Tail(@)]
        /\ handlePc' = [handlePc EXCEPT ![c] = "got"]
     \/ /\ Len(packetReceiveChan[c]) = 0
        /\ recvClosed[c]
        /\ hPkt' = [hPkt EXCEPT ![c] = 0]
        /\ handlePc' = [handlePc EXCEPT ![c] = "got"]
        /\ UNCHANGED packetReceiveChan
  /\ UNCHANGED <<srvVars, doVars, closeVars, closeReturned, packetSendChan,
                 readVars, writeVars, msgLog, msgAfterClose, rejected, enqLog,
                 appVars>>

\* A handleLoop without the IsClosed check after the receive.
HandleCheckM(c) ==
  /\ handlePc[c] = "got"
  /\ handlePc' = [handlePc EXCEPT ![c] = "msg"]
  /\ UNCHANGED <<srvVars, doVars, closeVars, closeReturned, packetSendChan,
                 packetReceiveChan, readVars, writeVars, hPkt, msgLog,
                 msgAfterClose, rejected, enqLog, appVars>>

\* Lines 226-228: if c.IsClosed() { return }.
HandleCheck(c) ==
  /\ handlePc[c] = "got"
  /\ handlePc' = [handlePc EXCEPT ![c] = IF IsClosed(c) THEN "close" ELSE "msg"]
  /\ UNCHANGED <<srvVars, doVars, closeVars, closeReturned, packetSendChan,
                 packetReceiveChan, readVars, writeVars, hPkt, msgLog,
                 msgAfterClose, rejected, enqLog, appVars>>

\* Lines 229-231: OnMessage(c, p); the loop goes on when it returns true, and
\* returns when it returns false (or panics: the deferred recover contains it).
HandleMsg(c) ==
  /\ handlePc[c] = "msg"
  /\ msgLog' = [msgLog EXCEPT ![c] = Append(@, hPkt[c])]
  /\ msgAfterClose' = [msgAfterClose EXCEPT ![c] = IF onCloseCount[c] > 0 THEN @ + 1 ELSE @]
  /\ hPkt' = [hPkt EXCEPT ![c] = 0]
  /\ \E keep \in BOOLEAN :
       /\ handlePc' = [handlePc EXCEPT ![c] = IF keep THEN "sel" ELSE "close"]
       /\ rejected' = [rejected EXCEPT ![c] = @ \/ ~keep]
  /\ UNCHANGED <<srvVars, doVars, closeVars, closeReturned, packetSendChan,
                 packetReceiveChan, readVars, writeVars, enqLog, appVars>>

\* Line 214 and asyncDo 239-240: c.Close() returns, then wg.Done().
HandleClose(c) ==
  /\ handlePc[c] = "close"
  /\ OnceDone(c)
  /\ handlePc' = [handlePc EXCEPT ![c] = "done"]
  /\ waitGroup' = waitGroup - 1
  /\ closeReturned' = [closeReturned EXCEPT ![c] = TRUE]
  /\ UNCHANGED <<exitChan, startPc, listenerClosed, nAccepted, stopPc, doVars,
                 closeVars, packetSendChan, packetReceiveChan, readVars, writeVars,
                 hPkt, msgLog, msgAfterClose, rejected, enqLog, appVars>>

\* ---------------------------------------------------------------------------
\* The application: goroutines that call Conn.AsyncWritePacket (conn.go 93-127)
\* and Conn.Close on a connection they accepted in OnConnect.
\* ---------------------------------------------------------------------------

\* An AsyncWritePacket without the deferred recover: the panic reaches the caller.
RecoveredM == "panic"

\* Lines 98-103: the deferred recover turns a panic into err = ErrConnClosing.
Recovered == "ErrConnClosing"

\* What the caller of AsyncWritePacket observes when the call returns: the
\* error, the timeout it passed, whether its timer had fired, whether the
\* deferred recover logged a panic (line 100), and whether the call had started
\* after a Close had returned.
Returned(a, res, rec) ==
  [res |-> res, timeout |-> apTimeout[a], timer |-> apTimer[a], recovered |-> rec,
   afterClose |-> apAfterClose[a]]

\* Lines 93-96: the call starts and reads the closed flag.  t = 0 is
\* timeout == 0, t = 1 a positive timeout.  The k-th packet enqueued on a
\* connection is packet k.
AwpCall(a, c, t, max) ==
  /\ apPc[a] = "idle"
  /\ nCalls < max
  /\ connected[c] = "accept"
  /\ nCalls' = nCalls + 1
  /\ apConn' = [apConn EXCEPT ![a] = c]
  /\ IF IsClosed(c)
       THEN /\ last' = [res |-> "ErrConnClosing", timeout |-> t, timer |-> FALSE,
                        recovered |-> FALSE, afterClose |-> closeReturned[c]]
            /\ UNCHANGED <<apPc, apTimeout, apAfterClose>>
       ELSE /\ apPc' = [apPc EXCEPT ![a] = "sel"]
            /\ apTimeout' = [apTimeout EXCEPT ![a] = t]
            /\ apAfterClose' = [apAfterClose EXCEPT ![a] = closeReturned[c]]
            /\ UNCHANGED last
  /\ UNCHANGED <<srvVars, doVars, closeVars, closeReturned, packetSendChan,
                 packetReceiveChan, readVars, writeVars, handleVars, enqLog,
                 apTimer>>

\* A packetSendChan made one slot too large.
SendRoomM(c) == Len(packetSendChan[c]) <= PacketSendChanLimit

\* newConn, line 55: packetSendChan has room for PacketSendChanLimit packets.
SendRoom(c) == Len(packetSendChan[c]) < PacketSendChanLimit

\* A timeout case that is ready at once, as with time.After(0).
TimerReadyM(a) == TRUE

\* Line 123: <-time.After(timeout) is ready once the timer has fired.
TimerReady(a) == apTimer[a]

\* Line 123: the timer of time.After(timeout) fires.
TimerFire(a) ==
  /\ apPc[a] = "sel"
  /\ apTimeout[a] > 0
  /\ ~apTimer[a]
  /\ apTimer' = [apTimer EXCEPT ![a] = TRUE]
  /\ UNCHANGED <<srvVars, doVars, closeVars, closeReturned, packetSendChan,
                 packetReceiveChan, readVars, writeVars, handleVars, enqLog, apPc,
                 apConn, apTimeout, apAfterClose, last, nCalls>>

\* Lines 105-126: the select.  With timeout == 0 the default case is taken when
\* the send cannot proceed; with a positive timeout Go picks any ready case.  A
\* send on the closed channel is ready and panics.
AwpSelect(a) ==
  /\ apPc[a] = "sel"
  /\ LET c == apConn[a] IN
       \/ /\ ~sendClosed[c]
          /\ SendRoom(c)
          /\ packetSendChan' = [packetSendChan EXCEPT ![c] = Append(@, Len(enqLog[c]) + 1)]
          /\ enqLog' = [enqLog EXCEPT ![c] = Append(@, Len(enqLog[c]) + 1)]
          /\ last' = Returned(a, "nil", FALSE)
       \/ /\ sendClosed[c]
          /\ last' = Returned(a, Recovered, TRUE)
          /\ UNCHANGED <<packetSendChan, enqLog>>
       \/ /\ apTimeout[a] > 0
          /\ closeChan[c]
          /\ last' = Returned(a, "ErrConnClosing", FALSE)
          /\ UNCHANGED <<packetSendChan, enqLog>>
       \/ /\ apTimeout[a] > 0
          /\ TimerReady(a)
          /\ last' = Returned(a, "ErrWriteBlocking", FALSE)
          /\ UNCHANGED <<packetSendChan, enqLog>>
       \/ /\ apTimeout[a] = 0
          /\ ~sendClosed[c]
          /\ ~SendRoom(c)
          /\ last' = Returned(a, "ErrWriteBlocking", FALSE)
          /\ UNCHANGED <<packetSendChan, enqLog>>
  /\ apPc' = [apPc EXCEPT ![a] = "idle"]
  /\ apTimeout' = [apTimeout EXCEPT ![a] = 0]
  /\ apTimer' = [apTimer EXCEPT ![a] = FALSE]
  /\ apAfterClose' = [apAfterClose EXCEPT ![a] = FALSE]
  /\ UNCHANGED <<srvVars, doVars, closeVars, closeReturned, packetReceiveChan,
                 readVars, writeVars, handleVars, apConn, nCalls>>

\* An external caller enters c.Close() (line 76).
AppClose(a, c, max) ==
  /\ apPc[a] = "idle"
  /\ nCalls < max
  /\ connected[c] = "accept"
  /\ nCalls' = nCalls + 1
  /\ apConn' = [apConn EXCEPT ![a] = c]
  /\ apPc' = [apPc EXCEPT ![a] = "close"]
  /\ UNCHANGED <<srvVars, doVars, closeVars, closeReturned, packetSendChan,
                 packetReceiveChan, readVars, writeVars, handleVars, enqLog,
                 apTimeout, apTimer, apAfterClose, last>>

\* c.Close() returns to the external caller (line 85).
AppCloseReturn(a) ==
  /\ apPc[a] = "close"
  /\ OnceDone(apConn[a])
  /\ apPc' = [apPc EXCEPT ![a] = "idle"]
  /\ closeReturned' = [closeReturned EXCEPT ![apConn[a]] = TRUE]
  /\ UNCHANGED <<srvVars, doVars, closeVars, packetSendChan, packetReceiveChan,
                 readVars, writeVars, handleVars, enqLog, apConn, apTimeout,
                 apTimer, apAfterClose, last, nCalls>>

\* ---------------------------------------------------------------------------
\* The system
\* ---------------------------------------------------------------------------

\* The steps of the connections' workers and of Close.
ConnNext(maxRead) ==
  \/ \E c \in Conns : CloseBegin(c)
  \/ \E c \in Conns : CloseStep(c)
  \/ \E c \in Conns : ReadSelect(c)
  \/ \E c \in Conns : ReadPacketOk(c, maxRead)
  \/ \E c \in Conns : ReadPacketErr(c)
  \/ \E c \in Conns : ReadPush(c)
  \/ \E c \in Conns : ReadClose(c)
  \/ \E c \in Conns : WriteSelect(c)
  \/ \E c \in Conns : WriteCheck(c)
  \/ \E c \in Conns : WriteSockOk(c)
  \/ \E c \in Conns : WriteSockErr(c)
  \/ \E c \in Conns : WriteClose(c)
  \/ \E c \in Conns : HandleSelect(c)
  \/ \E c \in Conns : HandleCheck(c)
  \/ \E c \in Conns : HandleMsg(c)
  \/ \E c \in Conns : HandleClose(c)

\* The steps of the application goroutines.
AppNext(apps, maxCalls) ==
  \/ \E a \in apps : \E c \in Conns : \E t \in {0, 1} : AwpCall(a, c, t, maxCalls)
  \/ \E a \in apps : TimerFire(a)
  \/ \E a \in apps : AwpSelect(a)
  \/ \E a \in apps : \E c \in Conns : AppClose(a, c, maxCalls)
  \/ \E a \in apps : AppCloseReturn(a)

\* The server: one socket arrives at the listener, its peer sends one packet,
\* and one application goroutine makes two calls on the connection.
Next ==
  \/ StartAdd
  \/ StartSelect
  \/ StartAcceptErr
  \/ StartAccept(1)
  \/ \E s \in Stoppers : Stop(s)
  \/ \E s \in Stoppers : StopWait(s)
  \/ \E c \in Conns : Do(c)
  \/ ConnNext(1)
  \/ AppNext({1}, 2)

Spec == Init /\ [][Next]_vars

\* One connection that OnConnect accepted (Start is in Accept, Do has started
\* the three workers), under the full load of the application and the peer.
InitConn ==
  /\ exitChan = FALSE
  /\ waitGroup = 4
  /\ startPc = "accept"
  /\ listenerClosed = FALSE
  /\ nAccepted = 1
  /\ stopPc = [s \in Stoppers |-> "idle"]
  /\ doPc = [c \in Conns |-> IF c = 1 THEN "done" ELSE "none"]
  /\ connected = [c \in Conns |-> IF c = 1 THEN "accept" ELSE "none"]
  /\ closePc = [c \in Conns |-> 0]
  /\ closeFlag = [c \in Conns |-> 0]
  /\ closeChan = [c \in Conns |-> FALSE]
  /\ sendClosed = [c \in Conns |-> FALSE]
  /\ recvClosed = [c \in Conns |-> FALSE]
  /\ sockClosed = [c \in Conns |-> FALSE]
  /\ onCloseCount = [c \in Conns |-> 0]
  /\ closeRuns = [c \in Conns |-> 0]
  /\ closeReturned = [c \in Conns |-> FALSE]
  /\ packetSendChan = [c \in Conns |-> <<>>]
  /\ packetReceiveChan = [c \in Conns |-> <<>>]
  /\ readPc = [c \in Conns |-> IF c = 1 THEN "top" ELSE "off"]
  /\ rPkt = [c \in Conns |-> 0]
  /\ readCount = [c \in Conns |-> 0]
  /\ readFails = [c \in Conns |-> 0]
  /\ writePc = [c \in Conns |-> IF c = 1 THEN "sel" ELSE "off"]
  /\ wPkt = [c \in Conns |-> 0]
  /\ wrLog = [c \in Conns |-> <<>>]
  /\ handlePc = [c \in Conns |-> IF c = 1 THEN "sel" ELSE "off"]
  /\ hPkt = [c \in Conns |-> 0]
  /\ msgLog = [c \in Conns |-> <<>>]
  /\ msgAfterClose = [c \in Conns |-> 0]
  /\ rejected = [c \in Conns |-> FALSE]
  /\ enqLog = [c \in Conns |-> <<>>]
  /\ apPc = [a \in Apps |-> "idle"]
  /\ apConn = [a \in Apps |-> 1]
  /\ apTimeout = [a \in Apps |-> 0]
  /\ apTimer = [a \in Apps |-> FALSE]
  /\ apAfterClose = [a \in Apps |-> FALSE]
  /\ last = NoCall
  /\ nCalls = 0

NextConn ==
  \/ ConnNext(MaxRead)
  \/ AppNext(Apps, MaxCalls)

SpecConn == InitConn /\ [][NextConn]_vars

\* ---------------------------------------------------------------------------
\* Properties
\* ---------------------------------------------------------------------------

\* One open connection whose peer sends one packet more than the inbound
\* queue and the read worker hold together, with one application goroutine.
NextIn ==
  \/ ConnNext(PacketReceiveChanLimit + 2)
  \/ AppNext({1}, PacketSendChanLimit + 1)

SpecIn == InitConn /\ [][NextIn]_vars

\* One open connection on which the application has made one call, an
\* AsyncWritePacket that returned nil: its packet is in the outbound queue.
InitLive ==
  /\ exitChan = FALSE
  /\ waitGroup = 4
  /\ startPc = "accept"
  /\ listenerClosed = FALSE
  /\ nAccepted = 1
  /\ stopPc = [s \in Stoppers |-> "idle"]
  /\ doPc = [c \in Conns |-> IF c = 1 THEN "done" ELSE "none"]
  /\ connected = [c \in Conns |-> IF c = 1 THEN "accept" ELSE "none"]
  /\ closePc = [c \in Conns |-> 0]
  /\ closeFlag = [c \in Conns |-> 0]
  /\ closeChan = [c \in Conns |-> FALSE]
  /\ sendClosed = [c \in Conns |-> FALSE]
  /\ recvClosed = [c \in Conns |-> FALSE]
  /\ sockClosed = [c \in Conns |-> FALSE]
  /\ onCloseCount = [c \in Conns |-> 0]
  /\ closeRuns = [c \in Conns |-> 0]
  /\ closeReturned = [c \in Conns |-> FALSE]
  /\ packetSendChan = [c \in Conns |-> IF c = 1 THEN <<1>> ELSE <<>>]
  /\ packetReceiveChan = [c \in Conns |-> <<>>]
  /\ readPc = [c \in Conns |-> IF c = 1 THEN "top" ELSE "off"]
  /\ rPkt = [c \in Conns |-> 0]
  /\ readCount = [c \in Conns |-> 0]
  /\ readFails = [c \in Conns |-> 0]
  /\ writePc = [c \in Conns |-> IF c = 1 THEN "sel" ELSE "off"]
  /\ wPkt = [c \in Conns |-> 0]
  /\ wrLog = [c \in Conns |-> <<>>]
  /\ handlePc = [c \in Conns |-> IF c = 1 THEN "sel" ELSE "off"]
  /\ hPkt = [c \in Conns |-> 0]
  /\ msgLog = [c \in Conns |-> <<>>]
  /\ msgAfterClose = [c \in Conns |-> 0]
  /\ rejected = [c \in Conns |-> FALSE]
  /\ enqLog = [c \in Conns |-> IF c = 1 THEN <<1>> ELSE <<>>]
  /\ apPc = [a \in Apps |-> "idle"]
  /\ apConn = [a \in Apps |-> 1]
  /\ apTimeout = [a \in Apps |-> 0]
  /\ apTimer = [a \in Apps |-> FALSE]
  /\ apAfterClose = [a \in Apps |-> FALSE]
  /\ last = [NoCall EXCEPT !.res = "nil"]
  /\ nCalls = 1

\* Every close trigger can hit that connection: a failed ReadPacket, a failed
\* Write, OnMessage returning false, a send on the closed inbound queue, Close
\* called by the application, and exitChan closed by a Stop; the peer sends
\* enough to fill the inbound queue and block the read worker.
NextLive ==
  \/ \E s \in {1} : Stop(s)
  \/ ConnNext(PacketReceiveChanLimit + 1)
  \/ \E a \in {1} : \E c \in Conns : AppClose(a, c, 2)
  \/ \E a \in {1} : AppCloseReturn(a)

\* Two connections: the first is open with a packet in its outbound queue,
\* the second arrives at the listener while the first one runs, fails and
\* closes; each peer sends one packet.  Nobody calls Stop.
NextPair ==
  \/ StartSelect
  \/ StartAcceptErr
  \/ StartAccept(2)
  \/ \E c \in Conns : Do(c)
  \/ ConnNext(1)

SpecPair == InitLive /\ [][NextPair]_vars

\* The steps a started goroutine takes without waiting for its peer: the Go
\* scheduler runs every runnable goroutine.  ReadPacket and Write may block for
\* ever on an open socket; on a closed socket they return an error.
ReadStep(c) ==
  \/ ReadSelect(c)
  \/ sockClosed[c] /\ ReadPacketErr(c)
  \/ ReadPush(c)
  \/ ReadClose(c)

WriteStep(c) ==
  \/ WriteSelect(c)
  \/ WriteCheck(c)
  \/ sockClosed[c] /\ WriteSockErr(c)
  \/ WriteClose(c)

\* The hooks OnMessage and OnClose return.
HandleStep(c) ==
  \/ HandleSelect(c)
  \/ HandleCheck(c)
  \/ HandleMsg(c)
  \/ HandleClose(c)

CloseBody(c) == CloseBegin(c) \/ CloseStep(c)

Fairness ==
  \A c \in Conns :
    /\ WF_vars(ReadStep(c))
    /\ WF_vars(WriteStep(c))
    /\ WF_vars(HandleStep(c))
    /\ WF_vars(CloseBody(c))

SpecLive == InitLive /\ [][NextLive]_vars /\ Fairness

\* The body of Close has run for connection c and its three workers have exited.
ConnClosed(c) ==
  /\ closeFlag[c] = 1
  /\ sockClosed[c]
  /\ onCloseCount[c] = 1
  /\ readPc[c] = "done" /\ writePc[c] = "done" /\ handlePc[c] = "done"

\* Everything connection c owns: its Close state, its queues, its workers.
ConnState(c) ==
  <<closePc[c], closeFlag[c], closeChan[c], sendClosed[c], recvClosed[c],
    sockClosed[c], onCloseCount[c], packetSendChan[c], packetReceiveChan[c],
    readPc[c], rPkt[c], writePc[c], wPkt[c], handlePc[c], hPkt[c]>>

\* The server-wide cancellation signal and the accept worker.
AcceptState == <<exitChan, startPc, listenerClosed, nAccepted>>

\* The goroutines of connection c that have been started and have not exited.
WorkersExited(c) ==
  /\ doPc[c] \in {"none", "done"}
  /\ readPc[c] \in {"off", "done"}
  /\ writePc[c] \in {"off", "done"}
  /\ handlePc[c] \in {"off", "done"}

\* C1: whatever the number of concurrent callers of Close (the three workers
\* and external callers), the body of Close is entered at most once and OnClose
\* is invoked at most once; once a Close call has returned, exactly once.
C1_CloseOnce ==
  \A c \in Conns :
    /\ closeRuns[c] <= 1
    /\ onCloseCount[c] <= 1
    /\ closeReturned[c] => closeRuns[c] = 1 /\ onCloseCount[c] = 1

\* The three workers and every application goroutine are inside Close at the
\* same time, and the body has completed once.
C1_Witness ==
  \E c \in Conns :
    /\ readPc[c] = "close" /\ writePc[c] = "close" /\ handlePc[c] = "close"
    /\ \A a \in Apps : apPc[a] = "close" /\ apConn[a] = c
    /\ closePc[c] = 6
    /\ onCloseCount[c] = 1

\* C2: an AsyncWritePacket call that starts after a Close call has returned
\* never reaches the select (so it enqueues nothing) and returns ErrConnClosing,
\* whatever its timeout and whatever the queue holds.
C2_WriteAfterClose ==
  /\ \A a \in Apps : apPc[a] = "sel" => ~apAfterClose[a]
  /\ last.afterClose => last.res = "ErrConnClosing"

\* A call with a positive timeout was rejected after Close had returned, while
\* the outbound queue still held a packet.
C2_Witness ==
  /\ last.afterClose
  /\ last.res = "ErrConnClosing"
  /\ last.timeout = 1
  /\ \E c \in Conns : closeReturned[c] /\ Len(packetSendChan[c]) > 0

\* C3: on an open connection from whose outbound queue nothing was taken, a
\* zero-timeout AsyncWritePacket returns nil and appends its packet while fewer
\* than PacketSendChanLimit packets were enqueued, and returns ErrWriteBlocking,
\* leaving the queue with exactly the first PacketSendChanLimit packets, after.
C3_ZeroTimeoutFull ==
  [][\A a \in Apps :
       LET c == apConn[a] IN
         (/\ apPc[a] = "sel" /\ apPc'[a] = "idle"
          /\ apTimeout[a] = 0
          /\ closePc[c] = 0
          /\ packetSendChan[c] = enqLog[c])
         => IF Len(enqLog[c]) < PacketSendChanLimit
              THEN /\ last'.res = "nil"
                   /\ packetSendChan'[c] = Append(packetSendChan[c], Len(enqLog[c]) + 1)
              ELSE /\ last'.res = "ErrWriteBlocking"
                   /\ packetSendChan'[c] = packetSendChan[c]
                   /\ Len(packetSendChan'[c]) = PacketSendChanLimit]_vars

\* After PacketSendChanLimit + 1 calls on an open connection nobody drains, the
\* last one, with timeout 0, returned ErrWriteBlocking.
C3_Witness ==
  /\ last.res = "ErrWriteBlocking"
  /\ last.timeout = 0
  /\ nCalls = PacketSendChanLimit + 1
  /\ \E c \in Conns :
       /\ closePc[c] = 0
       /\ packetSendChan[c] = enqLog[c]
       /\ Len(enqLog[c]) = PacketSendChanLimit

C5_Orig ==
  (\E s \in Stoppers : stopPc[s] = "done") =>
    /\ startPc = "done"
    /\ \A c \in Conns : WorkersExited(c)

\* C6 (as claimed): when ReadPacket failed after n successes and nothing else
\* closed the connection, OnMessage was invoked exactly n times, OnClose once,
\* and no OnMessage came after OnClose.
C6_Orig ==
  \A c \in Conns :
    (/\ readFails[c] = 1 /\ nCalls = 0 /\ ~rejected[c]
     /\ readPc[c] = "done" /\ writePc[c] = "done" /\ handlePc[c] = "done")
    => /\ Len(msgLog[c]) = readCount[c]
       /\ onCloseCount[c] = 1
       /\ msgAfterClose[c] = 0

\* C6 (amended): OnMessage is invoked at most n times, for the first decoded
\* packets in decode order; after the failed ReadPacket the read worker is in
\* Close or has exited (it calls ReadPacket no more); OnClose is invoked at
\* most once, and exactly once when the read worker has exited.
C6_Amended ==
  \A c \in Conns :
    /\ Len(msgLog[c]) <= readCount[c]
    /\ \A i \in 1..Len(msgLog[c]) : msgLog[c][i] = i
    /\ readFails[c] <= 1
    /\ readFails[c] = 1 => readPc[c] \in {"close", "done"}
    /\ onCloseCount[c] <= 1
    /\ readPc[c] = "done" => onCloseCount[c] = 1

\* ReadPacket succeeded twice and failed on the third call, with no other
\* reason to close: both packets were dispatched and OnClose ran once.
C6_Witness ==
  \E c \in Conns :
    /\ readCount[c] = 2 /\ readFails[c] = 1 /\ nCalls = 0 /\ ~rejected[c]
    /\ readPc[c] = "done" /\ handlePc[c] = "done"
    /\ msgLog[c] = <<1, 2>>
    /\ onCloseCount[c] = 1

\* C7: on an open connection whose outbound queue is full, a call with a
\* positive timeout that returns returns ErrWriteBlocking, with its timer
\* fired, and leaves the queue as it was; and a call whose timer has fired can
\* always return.
C7_TimeoutFull ==
  /\ [][\A a \in Apps :
          LET c == apConn[a] IN
            (/\ apPc[a] = "sel" /\ apPc'[a] = "idle"
             /\ apTimeout[a] > 0
             /\ closePc[c] = 0
             /\ Len(packetSendChan[c]) = PacketSendChanLimit)
            => /\ last'.res = "ErrWriteBlocking"
               /\ apTimer[a]
               /\ packetSendChan'[c] = packetSendChan[c]
               /\ enqLog'[c] = enqLog[c]]_vars
  /\ [](\A a \in Apps :
          apPc[a] = "sel" /\ apTimeout[a] > 0 /\ apTimer[a] => ENABLED AwpSelect(a))

\* A call with a positive timeout returned ErrWriteBlocking, its timer fired,
\* on an open connection whose full queue nobody drained.
C7_Witness ==
  /\ last.res = "ErrWriteBlocking"
  /\ last.timeout = 1
  /\ last.timer
  /\ \E c \in Conns :
       /\ closePc[c] = 0
       /\ packetSendChan[c] = enqLog[c]
       /\ Len(packetSendChan[c]) = PacketSendChanLimit

\* C8 (as claimed): no call of Stop raises a fault.
C8_Orig == \A s \in Stoppers : stopPc[s] # "panic"

\* C9 (as claimed): the closed flag never goes back from 1, and no packet is
\* enqueued in a state where the closed flag is 1.
C9_Orig ==
  [][\A c \in Conns :
       closeFlag[c] = 1 => closeFlag'[c] = 1 /\ enqLog'[c] = enqLog[c]]_vars

\* C10: AsyncWritePacket returns nil, ErrConnClosing or ErrWriteBlocking and
\* nothing else, and a call whose send panicked on the closed queue returns
\* ErrConnClosing.
C10_Outcomes ==
  /\ last.res \in {"none", "nil", "ErrConnClosing", "ErrWriteBlocking"}
  /\ last.recovered => last.res = "ErrConnClosing"

\* A send with timeout 0 hit the closed queue and the call returned
\* ErrConnClosing.
C10_Witness ==
  /\ last.recovered
  /\ last.timeout = 0
  /\ last.res = "ErrConnClosing"

C13_CloseOrder ==
  \A c \in Conns :
    /\ closeChan[c] => closeFlag[c] = 1
    /\ sendClosed[c] => closeChan[c]
    /\ recvClosed[c] => sendClosed[c]
    /\ sockClosed[c] => recvClosed[c]
    /\ onCloseCount[c] > 0 => sockClosed[c]

\* In the middle of the body: the outbound queue is closed, the inbound queue
\* is not yet, and a worker is waiting for the body to complete.
C13_Witness ==
  \E c \in Conns :
    /\ sendClosed[c] /\ ~recvClosed[c]
    /\ closeFlag[c] = 1 /\ closeChan[c]
    /\ handlePc[c] = "close"

\* C18 (as claimed): OnMessage is never invoked for a connection after OnClose
\* was invoked for it, however the dispatch worker's IsClosed check interleaves
\* with a Close executed by another goroutine.
C18_Orig == \A c \in Conns : msgAfterClose[c] = 0

\* C19: the nil a worker receives from a closed queue is never passed to
\* OnMessage and never serialized or written: the logs of dispatched and of
\* written packets hold no nil, and no worker is about to use one.
C19_NilNeverUsed ==
  \A c \in Conns :
    /\ \A i \in 1..Len(msgLog[c]) : msgLog[c][i] # 0
    /\ \A i \in 1..Len(wrLog[c]) : wrLog[c][i] # 0
    /\ handlePc[c] = "msg" => hPkt[c] # 0
    /\ writePc[c] = "write" => wPkt[c] # 0

\* The dispatch worker and the write worker have both received nil from their
\* closed, empty queues and are about to check IsClosed.
C19_Witness ==
  \E c \in Conns :
    /\ handlePc[c] = "got" /\ hPkt[c] = 0 /\ recvClosed[c]
    /\ writePc[c] = "got" /\ wPkt[c] = 0 /\ sendClosed[c]

\* C17: exitChan, once raised, stays raised; a Start that finds it raised
\* when it begins (or at the top of its loop) accepts no socket, creates no
\* connection, lets no OnConnect run for a new connection, and its only way on
\* is to return with the listener closed.
C17_NoRestart ==
  [][/\ exitChan => exitChan'
     /\ (exitChan /\ startPc \in {"go", "loop"}) =>
          /\ startPc' \in {startPc, "loop", "done"}
          /\ nAccepted' = nAccepted
          /\ \A c \in Conns : doPc[c] = "none" => doPc'[c] = "none" /\ connected'[c] = "none"
     /\ startPc' = "done" => listenerClosed'
     /\ startPc = "done" => startPc' = "done" /\ nAccepted' = nAccepted]_vars

\* A Stop has returned and a Start invoked after it has registered itself and
\* is at the top of its loop: nothing was accepted.
C17_Witness ==
  /\ \E s \in Stoppers : stopPc[s] = "done"
  /\ startPc = "loop"
  /\ nAccepted = 0

\* C20: when a Stop has returned, every connection OnConnect accepted is
\* closed (flag 1, socket closed) and its OnClose was invoked exactly once.
C20_StopClosesAll ==
  (\E s \in Stoppers : stopPc[s] = "done") =>
    \A c \in Conns :
      connected[c] = "accept" =>
        /\ closeFlag[c] = 1
        /\ sockClosed[c]
        /\ onCloseCount[c] = 1

\* A Stop has returned and the connection is closed although nothing local
\* asked for it: no ReadPacket failed, nothing was written, OnMessage never
\* returned false and the application made no call.
C20_Witness ==
  /\ \E s \in Stoppers : stopPc[s] = "done"
  /\ \E c \in Conns :
       /\ connected[c] = "accept"
       /\ closeFlag[c] = 1 /\ sockClosed[c] /\ onCloseCount[c] = 1
       /\ readFails[c] = 0 /\ ~rejected[c] /\ enqLog[c] = <<>>
       /\ nCalls = 0

\* C14: for a connection OnConnect accepted, once any close trigger has
\* occurred (some goroutine is in Close after a failed ReadPacket, a failed
\* Write, OnMessage returning false, a contained panic or a call by the
\* application, or exitChan is closed), the connection eventually is closed
\* (flag 1, socket closed), OnClose was invoked exactly once and the three
\* workers have exited, and it stays so.
C14_Terminates ==
  \A c \in Conns :
    (connected[c] = "accept" /\ (CloseCalled(c) \/ exitChan)) ~> []ConnClosed(c)

\* A trigger occurs (the dispatch worker enters Close) while the read worker
\* is blocked on the full inbound queue and the write worker is in Write.
C14_Witness ==
  \E c \in Conns :
    /\ readPc[c] = "push"
    /\ Len(packetReceiveChan[c]) = PacketReceiveChanLimit
    /\ writePc[c] = "write"
    /\ handlePc[c] = "close"
    /\ closePc[c] = 0

\* C16: the inbound queue never holds more than PacketReceiveChanLimit
\* packets; the read worker holds a decoded packet exactly while it is at the
\* push, and ReadPacket succeeds only when it holds none; so the packets
\* decoded and not yet taken by the dispatch worker (those in the queue and
\* the held one) never number more than PacketReceiveChanLimit + 1.
C16_Backpressure ==
  /\ [](\A c \in Conns :
          /\ Len(packetReceiveChan[c]) <= PacketReceiveChanLimit
          /\ rPkt[c] # 0 <=> readPc[c] = "push"
          /\ Len(packetReceiveChan[c]) + (IF rPkt[c] # 0 THEN 1 ELSE 0)
               <= PacketReceiveChanLimit + 1)
  /\ [][\A c \in Conns :
          readCount'[c] # readCount[c] =>
            /\ rPkt[c] = 0 /\ readPc[c] = "read"
            /\ readCount'[c] = readCount[c] + 1
            /\ rPkt'[c] = readCount'[c] /\ readPc'[c] = "push"]_vars

\* The queue of the open connection is full and the read worker is blocked at
\* the push with one more packet, while the peer has yet another to send.
C16_Witness ==
  \E c \in Conns :
    /\ closePc[c] = 0
    /\ Len(packetReceiveChan[c]) = PacketReceiveChanLimit
    /\ readPc[c] = "push" /\ rPkt[c] = PacketReceiveChanLimit + 1
    /\ readCount[c] = PacketReceiveChanLimit + 1
    /\ ~ENABLED ReadPush(c)

\* C15: a step of one connection (a failed ReadPacket or Write, a contained
\* panic, the Close it is turned into, or any other step of its workers)
\* changes nothing another connection owns (flag, queues, workers), nor
\* exitChan, nor the accept worker; no such step raises exitChan or ends the
\* accept worker, which can accept the next socket whenever it is in Accept.
C15_Contained ==
  /\ [][\A c \in Conns :
          ConnState(c)' # ConnState(c) =>
            /\ \A d \in Conns \ {c} : ConnState(d)' = ConnState(d)
            /\ AcceptState' = AcceptState]_vars
  /\ [](/\ ~exitChan /\ ~listenerClosed
        /\ startPc \in {"loop", "accept"}
        /\ (startPc = "accept" /\ nAccepted < 2) => ENABLED StartAccept(2))

\* The first connection failed in ReadPacket and is closed, its workers gone;
\* the second, accepted meanwhile, is open with its three workers running, and
\* the accept worker is in Accept.
C15_Witness ==
  /\ readFails[1] = 1 /\ ConnClosed(1)
  /\ connected[2] = "accept"
  /\ closePc[2] = 0 /\ closeFlag[2] = 0 /\ ~closeChan[2] /\ ~sockClosed[2]
  /\ readPc[2] = "read" /\ writePc[2] = "sel" /\ handlePc[2] = "sel"
  /\ startPc = "accept"

====
